---- MODULE Spec2Model ----
(***************************************************************************)
(* Verification model of the elliptic-curves repository: X25519 (three    *)
(* Montgomery ladders and the affine group law) and Ed25519 (affine and    *)
(* extended twisted-Edwards arithmetic, sign / verify).                    *)
(*                                                                         *)
(* The source works over p = 2^255 - 19 with Python big integers.  TLC has *)
(* 32-bit integers, so the model instantiates the same code over a curve   *)
(* of the same shape whose arithmetic fits:                                *)
(*    p = 2^9 - 3 = 509  (prime, p = 5 mod 8, like 2^255 - 19),            *)
(*    Montgomery  y^2 = x^3 + 354 x^2 + x,  a24 = (354 - 2)/4 = 88,        *)
(*    twisted Edwards  -x^2 + y^2 = 1 + d x^2 y^2,  d = -a24/(a24+1),      *)
(*    both of order 536 = 8 * 67: cofactor 8, prime subgroup order q = 67, *)
(*    8q > 2^9, so no clamped scalar is a multiple of q (as for 25519).    *)
(* A byte has 5 bits and a key has 2 bytes: 10 bits for a 9-bit field      *)
(* element plus the top bit, as 256 bits hold a 255-bit element.           *)
(***************************************************************************)
EXTENDS Integers, Sequences, FiniteSets, TLC

(* ----------------------------- parameters ------------------------------ *)

\* self.p = 2**255 - 19
p == 509
\* self.a24 = 121665
a24 == 88
\* self.A = 486662
CurveA == 354
\* self.a = -1
curve_a == -1
\* self.q = 2**252 + 27742317777372353535851937790883648493
q == 67
\* bits in a byte (8 in the source)
ByteBits == 5
\* KEY_SIZE = 32
KEY_SIZE == 2
\* length of a signature, 64 = 2 * KEY_SIZE
SIG_SIZE == 4

ByteMod == 2 ^ ByteBits
\* 0x80: the top bit of a byte;  64: the bit below it
TopBit == 2 ^ (ByteBits - 1)
SecondBit == 2 ^ (ByteBits - 2)
\* range(255): the ladders run over all bits of a key but the top one
LadderBits == ByteBits * KEY_SIZE - 1

Byte == 0 .. (ByteMod - 1)
KeyBytes == [1 .. KEY_SIZE -> Byte]

(* ------------------------- results and errors -------------------------- *)

\* A call either returns a value or raises; err names the exception class.
\* msg is the message of the exception.
Ok(v) == [err |-> "none", msg |-> "", val |-> v]
Raise(e, m) == [err |-> e, msg |-> m, val |-> 0]
IsOk(r) == r.err = "none"

(* ------------------------------ byte codec ----------------------------- *)

RECURSIVE from_bytes(_)
\* int.from_bytes(b, "little")
from_bytes(b) ==
    IF Len(b) = 0 THEN 0 ELSE Head(b) + ByteMod * from_bytes(Tail(b))

\* x.to_bytes(n, "little"): OverflowError when x does not fit in n bytes
to_bytes(x, n) ==
    IF x < 0 \/ x >= ByteMod ^ n
    THEN Raise("OverflowError", "int too big to convert")
    ELSE Ok([i \in 1 .. n |-> (x \div (ByteMod ^ (i - 1))) % ByteMod])

\* b[i] = v on a bytearray (0-based index i)
SetByte(b, i, v) == [b EXCEPT ![i + 1] = v]

(* -------------------------------- util.py ------------------------------ *)

RECURSIVE PowMod(_, _, _)
\* pow(b, e, m) for e >= 0
PowMod(b, e, m) ==
    IF e = 0 THEN 1 % m
    ELSE LET h == PowMod(b, e \div 2, m)
         IN  IF e % 2 = 0 THEN (h * h) % m ELSE (((h * h) % m) * (b % m)) % m

legendre(x, m) == PowMod(x, (m - 1) \div 2, m)

legendre_symbol(x, m) ==
    LET ls == legendre(x, m) IN IF ls = m - 1 THEN -1 ELSE ls

is_quadratic_residue(n, m) ==
    IF n % m = 0 \/ m = 2 THEN TRUE ELSE legendre_symbol(n, m) = 1

\* A modinv with the exponent p - 1
modinv_FullExponent(x, m) == PowMod(x, m - 1, m)

\* pow(x, p - 2, p)
modinv(x, m) == PowMod(x, m - 2, m)

\* A clamp that leaves the top bit of the last byte as it is
clamp_bytes_KeepsTopBit(k) ==
    LET k1 == SetByte(k, 0, k[1] - (k[1] % 8))
        k3 == SetByte(k1, KEY_SIZE - 1,
                      IF (k1[KEY_SIZE] \div SecondBit) % 2 = 1
                      THEN k1[KEY_SIZE] ELSE k1[KEY_SIZE] + SecondBit)
    IN  k3

\* k[0] &= 248; k[31] &= 127; k[31] |= 64; return int.from_bytes(k, "little")
clamp_bytes(k) ==
    LET k1 == SetByte(k, 0, k[1] - (k[1] % 8))
        k2 == SetByte(k1, KEY_SIZE - 1, k1[KEY_SIZE] % TopBit)
        k3 == SetByte(k2, KEY_SIZE - 1,
                      IF (k2[KEY_SIZE] \div SecondBit) % 2 = 1
                      THEN k2[KEY_SIZE] ELSE k2[KEY_SIZE] + SecondBit)
    IN  k3

clamp_scalar(k) == from_bytes(clamp_bytes(k))

\* A decode_u that keeps the top bit of the last byte
decode_u_NoMask(u_bytes) == from_bytes(u_bytes)

\* u[31] &= 127; return int.from_bytes(u, "little")
decode_u(u_bytes) ==
    from_bytes(SetByte(u_bytes, KEY_SIZE - 1, u_bytes[KEY_SIZE] % TopBit))

encode_u_coordinate(x) == to_bytes(x, KEY_SIZE)

\* dummy = swap * (x - y); return (x - dummy) % p, (y + dummy) % p
cswap(swap, x, y, m) ==
    LET dummy == swap * (x - y)
    IN  <<(x - dummy) % m, (y + dummy) % m>>

\* A conversion without the final reduction mod p
projective_to_affine_NoMod(X, Z, m) == X * modinv(Z, m)

projective_to_affine(X, Z, m) == (X * modinv(Z, m)) % m

\* A sqrt_mod that returns r itself when r * r is -x
sqrt_mod_NoTwist(x, m) ==
    LET exp == (m + 3) \div 8
        r == PowMod(x, exp, m)
    IN  IF (r * r) % m = x % m \/ (r * r) % m = (-x) % m THEN Ok(r)
        ELSE Raise("ValueError", "No square root exists for the given input.")

\* The square root for p = 5 mod 8
sqrt_mod(x, m) ==
    LET exp == (m + 3) \div 8
        r == PowMod(x, exp, m)
    IN  IF (r * r) % m = x % m THEN Ok(r)
        ELSE IF (r * r) % m = (-x) % m
             THEN Ok((r * PowMod(2, (m - 1) \div 4, m)) % m)
             ELSE Raise("ValueError", "No square root exists for the given input.")

(* ------------------- x25519/montgomery_ladder.py ----------------------- *)

\* bit t of k: (k_int >> t) & 1
BitOf(k, t) == (k \div (2 ^ t)) % 2

\* One iteration of the loop of MontgomeryLadderRFC7748.scalar_mult on the
\* state <<x2, z2, x3, z3, swap>>.
RFC7748_step(st, k_t, x1) ==
    LET sw  == k_t # st[5]
        x2  == IF sw THEN st[3] ELSE st[1]
        z2  == IF sw THEN st[4] ELSE st[2]
        x3  == IF sw THEN st[1] ELSE st[3]
        z3  == IF sw THEN st[2] ELSE st[4]
        swap == IF sw THEN k_t ELSE st[5]
        A   == (x2 + z2) % p
        B   == (x2 - z2) % p
        AA  == (A * A) % p
        BB  == (B * B) % p
        E   == (AA - BB) % p
        C   == (x3 + z3) % p
        D   == (x3 - z3) % p
        DA  == (D * A) % p
        CB  == (C * B) % p
        x3a == (DA + CB) % p
        x3b == (x3a * x3a) % p
        z3a == (DA - CB) % p
        z3b == (z3a * z3a) % p
        z3c == (z3b * x1) % p
        x2n == (AA * BB) % p
        z2n == (E * ((AA + ((a24 * E) % p)) % p)) % p
    IN  <<x2n, z2n, x3b, z3c, swap>>

RECURSIVE RFC7748_loop(_, _, _, _)
\* for t in reversed(range(255)), entered with the next bit index t
RFC7748_loop(t, st, k_int, x1) ==
    IF t < 0 THEN st
    ELSE RFC7748_loop(t - 1, RFC7748_step(st, BitOf(k_int, t), x1), k_int, x1)

\* MontgomeryLadderRFC7748.scalar_mult
RFC7748_scalar_mult(k_int, u_int) ==
    LET st == RFC7748_loop(LadderBits - 1, <<1, 0, u_int, 1, 0>>, k_int, u_int)
        x2 == IF st[5] = 1 THEN st[3] ELSE st[1]
        z2 == IF st[5] = 1 THEN st[4] ELSE st[2]
        inv_z2 == modinv(z2, p)
    IN  (x2 * inv_z2) % p

\* One iteration of MontgomeryLadderOptimized.scalar_mult on <<a, b, c, d>>.
\* Python parses  a + c % p  as  a + (c % p)  and  e * e % p  as (e * e) % p.
Optimized_step(st, bit, xP) ==
    LET ab0 == cswap(bit, st[1], st[2], p)
        cd0 == cswap(bit, st[3], st[4], p)
        a0  == ab0[1]
        b0  == ab0[2]
        c0  == cd0[1]
        d0  == cd0[2]
        e1  == a0 + (c0 % p)
        a1  == a0 - (c0 % p)
        c1  == b0 + (d0 % p)
        b1  == b0 - (d0 % p)
        d1  == (e1 * e1) % p
        f_val == (a1 * a1) % p
        a2  == (c1 * a1) % p
        c2  == (b1 * e1) % p
        e2  == a2 + (c2 % p)
        a3  == a2 - (c2 % p)
        b2  == (a3 * a3) % p
        c3  == d1 - (f_val % p)
        a4  == (c3 * a24) % p
        a5  == a4 + (d1 % p)
        c4  == (c3 * a5) % p
        a6  == (d1 * f_val) % p
        d2  == (b2 * xP) % p
        b3  == (e2 * e2) % p
        ab1 == cswap(bit, a6, b3, p)
        cd1 == cswap(bit, c4, d2, p)
    IN  <<ab1[1], ab1[2], cd1[1], cd1[2]>>

RECURSIVE Optimized_loop(_, _, _, _)
\* for i in range(254, -1, -1)
Optimized_loop(i, st, k_int, xP) ==
    IF i < 0 THEN st
    ELSE Optimized_loop(i - 1, Optimized_step(st, BitOf(k_int, i), xP), k_int, xP)

\* A wrong optimized ladder: the loop starts one bit too low (range(253, -1, -1))
Optimized_scalar_mult_SkipTopBit(k_int, xP) ==
    LET st == Optimized_loop(LadderBits - 2, <<1, xP, 0, 1>>, k_int, xP)
        inv_c == modinv(st[3], p)
    IN  (st[1] * inv_c) % p

\* MontgomeryLadderOptimized.scalar_mult
Optimized_scalar_mult(k_int, xP) ==
    LET st == Optimized_loop(LadderBits - 1, <<1, xP, 0, 1>>, k_int, xP)
        inv_c == modinv(st[3], p)
    IN  (st[1] * inv_c) % p

\* A ladder step whose differential addition leaves out the factor xP
ladder_step_NoBasePoint(X0, Z0, X1, Z1, xP) ==
    LET A  == (X0 + Z0) % p
        B  == (X0 - Z0) % p
        AA == (A * A) % p
        BB == (B * B) % p
        C  == (AA - BB) % p
        new_X0 == (AA * BB) % p
        new_Z0 == (C * (AA + ((a24 * C) % p))) % p
        D  == (X1 + Z1) % p
        E  == (X1 - Z1) % p
        DA == (E * A) % p
        CB == (D * B) % p
        new_X1 == ((((DA + CB) % p) ^ 2)) % p
        new_Z1 == (((DA - CB) % p) ^ 2) % p
    IN  <<new_X0, new_Z0, new_X1, new_Z1>>

\* MontgomeryLadderMKTutorial.ladder_step
ladder_step(X0, Z0, X1, Z1, xP) ==
    LET A  == (X0 + Z0) % p
        B  == (X0 - Z0) % p
        AA == (A * A) % p
        BB == (B * B) % p
        C  == (AA - BB) % p
        new_X0 == (AA * BB) % p
        new_Z0 == (C * (AA + ((a24 * C) % p))) % p
        D  == (X1 + Z1) % p
        E  == (X1 - Z1) % p
        DA == (E * A) % p
        CB == (D * B) % p
        new_X1 == ((((DA + CB) % p) ^ 2)) % p
        new_Z1 == (xP * (((DA - CB) % p) ^ 2)) % p
    IN  <<new_X0, new_Z0, new_X1, new_Z1>>

\* One iteration of MontgomeryLadderMKTutorial.scalar_mult on
\* <<X0, Z0, X1, Z1, swap>>.
MKTutorial_step(st, k_t, xP) ==
    LET swap_bit == (st[5] + k_t) % 2
        xs == cswap(swap_bit, st[1], st[3], p)
        zs == cswap(swap_bit, st[2], st[4], p)
        ls == ladder_step(xs[1], zs[1], xs[2], zs[2], xP)
    IN  <<ls[1], ls[2], ls[3], ls[4], k_t>>

RECURSIVE MKTutorial_loop(_, _, _, _)
MKTutorial_loop(t, st, k_int, xP) ==
    IF t < 0 THEN st
    ELSE MKTutorial_loop(t - 1, MKTutorial_step(st, BitOf(k_int, t), xP), k_int, xP)

\* MontgomeryLadderMKTutorial.scalar_mult
MKTutorial_scalar_mult(k_int, u_int) ==
    LET st == MKTutorial_loop(LadderBits - 1, <<1, 0, u_int, 1, 0>>, k_int, u_int)
        xs == cswap(st[5], st[1], st[3], p)
        zs == cswap(st[5], st[2], st[4], p)
    IN  projective_to_affine(xs[1], zs[1], p)

\* The ladder strategies
Ladders == {"RFC7748", "MKTutorial", "Optimized"}

ladder_scalar_mult(strategy, k_int, u_int) ==
    CASE strategy = "RFC7748"    -> RFC7748_scalar_mult(k_int, u_int)
      [] strategy = "MKTutorial" -> MKTutorial_scalar_mult(k_int, u_int)
      [] strategy = "Optimized"  -> Optimized_scalar_mult(k_int, u_int)

\* MontgomeryLadder.x25519
ladder_x25519(strategy, k_bytes, u_bytes) ==
    LET k_int == clamp_scalar(k_bytes)
        xP == decode_u(u_bytes)
        result_int == ladder_scalar_mult(strategy, k_int, xP)
    IN  encode_u_coordinate(result_int)

(* --------------------------- tonelli_shanks.py ------------------------- *)

\* Python's None where an int is expected
NoneInt == -1

RECURSIVE decompose(_, _)
\* decompose(n): n = q * 2^s with q odd, as <<q, s>>; s is the count so far
decompose(n, s) ==
    IF n % 2 = 0 THEN decompose(n \div 2, s + 1) ELSE <<n, s>>

RECURSIVE find_nonsquare_from(_, _)
\* for z in range(2, p): first z with legendre_symbol(z, p) == -1
find_nonsquare_from(z, m) ==
    IF z >= m THEN Raise("ValueError", "Could not find a quadratic non-residue")
    ELSE IF legendre_symbol(z, m) = -1 THEN Ok(z)
    ELSE find_nonsquare_from(z + 1, m)

find_nonsquare(m) == find_nonsquare_from(2, m)

RECURSIVE tonelli_inner(_, _, _, _)
\* the inner while loop: the least i with t^(2^i) = 1, or NoneInt when i
\* reaches m first (the code raises there)
tonelli_inner(temp, i, m, pp) ==
    IF temp = 1 THEN i
    ELSE IF i + 1 = m THEN NoneInt
    ELSE tonelli_inner(PowMod(temp, 2, pp), i + 1, m, pp)

RECURSIVE tonelli_loop(_, _, _, _, _)
\* the main while loop on (c, r, t, m)
tonelli_loop(c, r, t, m, pp) ==
    IF t = 1 THEN Ok(r)
    ELSE LET i == tonelli_inner(t, 0, m, pp)
         IN  IF i = NoneInt
             THEN Raise("ValueError", "Algorithm error: t^(2^i) never reached 1")
             ELSE LET b == PowMod(c, 2 ^ (m - i - 1), pp)
                  IN  tonelli_loop((b * b) % pp, (r * b) % pp,
                                   (t * b * b) % pp, i, pp)

\* A tonelli that takes the direct formula of p = 3 mod 4 for every prime
tonelli_DirectOnly(n, pp) ==
    IF pp = 2 THEN Ok(n % pp)
    ELSE IF n = 0 THEN Ok(0)
    ELSE IF ~ is_quadratic_residue(n, pp) THEN Ok(NoneInt)
    ELSE Ok(PowMod(n, (pp + 1) \div 4, pp))

\* tonelli(n, p): Ok(root), Ok(NoneInt) for None, or the algorithm error
tonelli(n, pp) ==
    IF pp = 2 THEN Ok(n % pp)
    ELSE IF n = 0 THEN Ok(0)
    ELSE IF ~ is_quadratic_residue(n, pp) THEN Ok(NoneInt)
    ELSE IF pp % 4 = 3 THEN Ok(PowMod(n, (pp + 1) \div 4, pp))
    ELSE LET qs == decompose(pp - 1, 0)
             z  == find_nonsquare(pp)
         IN  IF ~ IsOk(z) THEN z
             ELSE tonelli_loop(PowMod(z.val, qs[1], pp),
                               PowMod(n, (qs[1] + 1) \div 2, pp),
                               PowMod(n, qs[1], pp), qs[2], pp)

(* ------------------------ util.py: tonelli_shanks ---------------------- *)

RECURSIVE tonelli_shanks_factor(_, _)
\* Q = p - 1; while Q % 2 == 0: Q //= 2; S += 1, as <<Q, S>>
tonelli_shanks_factor(Q, S) ==
    IF Q % 2 = 0 THEN tonelli_shanks_factor(Q \div 2, S + 1) ELSE <<Q, S>>

RECURSIVE tonelli_shanks_nonresidue(_, _)
\* z = 2; while legendre(z, p) != p - 1: z += 1
tonelli_shanks_nonresidue(z, pp) ==
    IF legendre(z, pp) = pp - 1 THEN z
    ELSE tonelli_shanks_nonresidue(z + 1, pp)

RECURSIVE tonelli_shanks_inner(_, _, _, _)
\* the inner while loop: the least i with t^(2^i) = 1, or NoneInt when i
\* reaches M first (the code returns None there)
tonelli_shanks_inner(temp, i, M, pp) ==
    IF temp = 1 THEN i
    ELSE IF i + 1 = M THEN NoneInt
    ELSE tonelli_shanks_inner((temp * temp) % pp, i + 1, M, pp)

RECURSIVE tonelli_shanks_loop(_, _, _, _, _)
\* the main while loop on (M, c, t, R)
tonelli_shanks_loop(M, c, t, R, pp) ==
    IF t = 1 THEN R
    ELSE LET i == tonelli_shanks_inner(t, 0, M, pp)
         IN  IF i = NoneInt THEN NoneInt
             ELSE LET b  == PowMod(c, 2 ^ (M - i - 1), pp)
                      c2 == (b * b) % pp
                  IN  tonelli_shanks_loop(i, c2, (t * c2) % pp,
                                          (R * b) % pp, pp)

\* tonelli_shanks(n, p): Ok(root), or Ok(NoneInt) for None
tonelli_shanks(n, pp) ==
    IF n % pp = 0 THEN Ok(0)
    ELSE IF legendre(n, pp) # 1 THEN Ok(NoneInt)
    ELSE LET QS == tonelli_shanks_factor(pp - 1, 0)
         IN  IF QS[2] = 1 THEN Ok(PowMod(n, (pp + 1) \div 4, pp))
             ELSE LET z == tonelli_shanks_nonresidue(2, pp)
                  IN  Ok(tonelli_shanks_loop(QS[2],
                                             PowMod(z, QS[1], pp),
                                             PowMod(n, QS[1], pp),
                                             PowMod(n, (QS[1] + 1) \div 2, pp),
                                             pp))

(* -------------------------------- curve.py ----------------------------- *)

\* IdentityPoint = None
IdentityPoint == [none |-> TRUE]
AffinePoint(x, y) == [x |-> x, y |-> y]
ExtendedPoint(x, y, z, t) == [x |-> x, y |-> y, z |-> z, t |-> t]

(* --------------------------- x25519/group_law.py ----------------------- *)

\* X25519CurveGroupLaw.recover_point
recover_point(x) ==
    LET rhs == (PowMod(x, 3, p) + CurveA * PowMod(x, 2, p) + x) % p
        y == tonelli(rhs, p)
    IN  IF ~ IsOk(y) THEN y
        ELSE IF y.val = NoneInt THEN Raise("ValueError", "No valid y for given x")
        ELSE Ok(AffinePoint(x, IF y.val > p - y.val THEN p - y.val ELSE y.val))

\* A wrong doubling: the tangent slope without the 2*A*x term
mont_double_NoA(P) ==
    IF P = IdentityPoint THEN IdentityPoint
    ELSE IF P.y = 0 THEN IdentityPoint
    ELSE LET lam == ((3 * P.x * P.x + 1) * modinv(2 * P.y, p)) % p
             x3 == (lam * lam - CurveA - 2 * P.x) % p
             y3 == (lam * (P.x - x3) - P.y) % p
         IN  AffinePoint(x3, y3)

\* X25519CurveGroupLaw.double
mont_double(P) ==
    IF P = IdentityPoint THEN IdentityPoint
    ELSE IF P.y = 0 THEN IdentityPoint
    ELSE LET lam == ((3 * P.x * P.x + 2 * CurveA * P.x + 1)
                        * modinv(2 * P.y, p)) % p
             x3 == (lam * lam - CurveA - 2 * P.x) % p
             y3 == (lam * (P.x - x3) - P.y) % p
         IN  AffinePoint(x3, y3)

\* X25519CurveGroupLaw.add
mont_add(P, Q) ==
    IF P = IdentityPoint THEN Q
    ELSE IF Q = IdentityPoint THEN P
    ELSE IF P.x = Q.x
         THEN IF (P.y + Q.y) % p = 0 THEN IdentityPoint ELSE mont_double(P)
    ELSE LET lam == ((Q.y - P.y) * modinv(Q.x - P.x, p)) % p
             x3 == (lam * lam - CurveA - P.x - Q.x) % p
             y3 == (lam * (P.x - x3) - P.y) % p
         IN  AffinePoint(x3, y3)

(* --------------------- ed25519/affine_edwards_curve.py ----------------- *)

\* self.d = (-121665 * modinv(121666, self.p)) % self.p
curve_d == ((-a24) * modinv(a24 + 1, p)) % p

\* self.B: the base point, of order q
BasePoint == AffinePoint(38, 56)

\* d * x1 * x2 * y1 * y2.  Python's integers are unbounded; the product is
\* reduced as it is formed to stay within TLC's integers, which leaves every
\* use of it, (1 + denom) % p and (1 - denom) % p, unchanged.
edwards_denom(x1, x2, y1, y2) ==
    (((((curve_d * x1) % p) * ((x2 * y1) % p)) % p) * y2) % p

\* AffineEdwardsCurve.add
affine_add(P, Q) ==
    IF P = IdentityPoint THEN Q
    ELSE IF Q = IdentityPoint THEN P
    ELSE LET denom == edwards_denom(P.x, Q.x, P.y, Q.y)
             inv_denom_x == modinv((1 + denom) % p, p)
             inv_denom_y == modinv((1 - denom) % p, p)
             x3 == ((P.x * Q.y + Q.x * P.y) * inv_denom_x) % p
             y3 == ((P.x * Q.x + P.y * Q.y) * inv_denom_y) % p
         IN  AffinePoint(x3, y3)

\* AffineEdwardsCurve.double
affine_double(R) ==
    IF R = IdentityPoint THEN IdentityPoint
    ELSE LET denom == edwards_denom(R.x, R.x, R.y, R.y)
             inv_denom_x == modinv((1 + denom) % p, p)
             inv_denom_y == modinv((1 - denom) % p, p)
             x3 == ((R.x * R.y + R.y * R.x) * inv_denom_x) % p
             y3 == ((R.y * R.y - curve_a * R.x * R.x) * inv_denom_y) % p
         IN  AffinePoint(x3, y3)

\* A compress that never sets the sign bit of x
affine_compress_NoSign(P) ==
    IF P = IdentityPoint
    THEN Raise("ValueError", "Cannot compress Identity Element")
    ELSE to_bytes(P.y, KEY_SIZE)

\* AffineEdwardsCurve.compress
affine_compress(P) ==
    IF P = IdentityPoint
    THEN Raise("ValueError", "Cannot compress Identity Element")
    ELSE LET y_bytes == to_bytes(P.y, KEY_SIZE)
         IN  IF ~ IsOk(y_bytes) THEN y_bytes
             ELSE LET y_arr == y_bytes.val
                      last == y_arr[KEY_SIZE]
                  IN  Ok(SetByte(y_arr, KEY_SIZE - 1,
                         IF P.x % 2 = 1
                         THEN (IF last >= TopBit THEN last ELSE last + TopBit)
                         ELSE last % TopBit))

\* AffineEdwardsCurve.uncompress
affine_uncompress(comp) ==
    IF Len(comp) # KEY_SIZE
    THEN Raise("ValueError", "Compressed point must be 32 bytes")
    ELSE LET sign == (comp[KEY_SIZE] \div TopBit) % 2
             comp_arr == SetByte(comp, KEY_SIZE - 1, comp[KEY_SIZE] % TopBit)
             dx == from_bytes(comp_arr)
         IN  IF dx >= p THEN Raise("ValueError", "Decoded y is not in field range")
             ELSE LET dx_squared == (dx * dx) % p
                      u == (dx_squared - 1) % p
                      v == (curve_d * dx_squared + 1) % p
                      x_sq == (u * modinv(v, p)) % p
                      x == sqrt_mod(x_sq, p)
                  IN  IF ~ IsOk(x) THEN x
                      ELSE Ok(AffinePoint(
                               IF x.val % 2 # sign THEN (-x.val) % p ELSE x.val,
                               dx))

\* AffineEdwardsCurve.point_equals
affine_point_equals(P, Q) ==
    IF P = IdentityPoint \/ Q = IdentityPoint THEN TRUE
    ELSE P.x = Q.x /\ P.y = Q.y

(* -------------------- ed25519/extended_edwards_curve.py ---------------- *)

\* A wrong addition that is not symmetric in its operands: A and B take the
\* difference from one operand and the sum from the other
extended_add_Asymmetric(P, Q) ==
    IF P = IdentityPoint \/ Q = IdentityPoint
    THEN (IF P = IdentityPoint THEN P ELSE Q)
    ELSE LET A == ((P.y - P.x) * (Q.y + Q.x)) % p
             B == ((P.y + P.x) * (Q.y - Q.x)) % p
             C == (2 * curve_d * P.t * Q.t) % p
             D == (2 * P.z * Q.z) % p
             E == B - A
             F == D - C
             G == D + C
             H == B + A
         IN  ExtendedPoint((E * F) % p, (G * H) % p, (F * G) % p, (E * H) % p)

\* ExtendedEdwardsCurve.add
extended_add(P, Q) ==
    IF P = IdentityPoint \/ Q = IdentityPoint
    THEN (IF P = IdentityPoint THEN P ELSE Q)
    ELSE LET A == ((P.y - P.x) * (Q.y - Q.x)) % p
             B == ((P.y + P.x) * (Q.y + Q.x)) % p
             C == (2 * curve_d * P.t * Q.t) % p
             D == (2 * P.z * Q.z) % p
             E == B - A
             F == D - C
             G == D + C
             H == B + A
         IN  ExtendedPoint((E * F) % p, (G * H) % p, (F * G) % p, (E * H) % p)

\* A wrong doubling: C is Z^2, not 2 * Z^2
extended_double_HalfC(P) ==
    IF P = IdentityPoint THEN IdentityPoint
    ELSE LET A == (P.x ^ 2) % p
             B == (P.y ^ 2) % p
             C == (P.z ^ 2) % p
             D == (curve_a * A) % p
             E == ((P.x + P.y) ^ 2) - A - (B % p)
             G == D + (B % p)
             F == G - (C % p)
             H == D - (B % p)
         IN  ExtendedPoint((E * F) % p, (G * H) % p, (F * G) % p, (E * H) % p)

\* ExtendedEdwardsCurve.double;  x - A - B % p  is  x - A - (B % p)
extended_double(P) ==
    IF P = IdentityPoint THEN IdentityPoint
    ELSE LET A == (P.x ^ 2) % p
             B == (P.y ^ 2) % p
             C == (2 * (P.z ^ 2)) % p
             D == (curve_a * A) % p
             E == ((P.x + P.y) ^ 2) - A - (B % p)
             G == D + (B % p)
             F == G - (C % p)
             H == D - (B % p)
         IN  ExtendedPoint((E * F) % p, (G * H) % p, (F * G) % p, (E * H) % p)

IsExtended(P) == DOMAIN P = {"x", "y", "z", "t"}

\* A conversion that leaves T at 0 instead of x * y
from_affine_ZeroT(point) ==
    IF point = IdentityPoint \/ IsExtended(point) THEN point
    ELSE ExtendedPoint(point.x, point.y, 1, 0)

\* ExtendedEdwardsCurve._from_affine
from_affine(point) ==
    IF point = IdentityPoint \/ IsExtended(point) THEN point
    ELSE ExtendedPoint(point.x, point.y, 1, (point.x * point.y) % p)

\* ExtendedEdwardsCurve._to_affine
to_affine(P) ==
    IF P = IdentityPoint THEN IdentityPoint
    ELSE AffinePoint(projective_to_affine(P.x, P.z, p),
                     projective_to_affine(P.y, P.z, p))

\* ExtendedEdwardsCurve.compress
extended_compress(point) == affine_compress(to_affine(point))

\* ExtendedEdwardsCurve.uncompress
extended_uncompress(comp) ==
    LET r == affine_uncompress(comp)
    IN  IF IsOk(r) THEN Ok(from_affine(r.val)) ELSE r

\* A comparison of the extended coordinates as they are, without the
\* conversion to affine
extended_point_equals_Raw(P, Q) == affine_point_equals(P, Q)

\* ExtendedEdwardsCurve.point_equals
extended_point_equals(P, Q) == affine_point_equals(to_affine(P), to_affine(Q))

(* ------------------- the curves behind one interface ------------------- *)

EdwardsCurves == {"affine", "extended"}

curve_add(curve, P, Q) ==
    CASE curve = "montgomery" -> mont_add(P, Q)
      [] curve = "affine"     -> affine_add(P, Q)
      [] curve = "extended"   -> extended_add(P, Q)

curve_double(curve, P) ==
    CASE curve = "montgomery" -> mont_double(P)
      [] curve = "affine"     -> affine_double(P)
      [] curve = "extended"   -> extended_double(P)

curve_compress(curve, P) ==
    IF curve = "affine" THEN affine_compress(P) ELSE extended_compress(P)

curve_uncompress(curve, comp) ==
    IF curve = "affine" THEN affine_uncompress(comp) ELSE extended_uncompress(comp)

curve_point_equals(curve, P, Q) ==
    IF curve = "affine" THEN affine_point_equals(P, Q)
    ELSE extended_point_equals(P, Q)

\* self.B of the curve object
curve_B(curve) ==
    IF curve = "affine" THEN BasePoint ELSE from_affine(BasePoint)

RECURSIVE scalar_mult_loop(_, _, _, _)
\* the while loop of DoubleAndAddCurve.scalar_mult on (Q, R, scalar)
scalar_mult_loop(curve, Q, R, scalar) ==
    IF scalar > 0
    THEN scalar_mult_loop(curve,
             IF scalar % 2 = 1
             THEN (IF Q = IdentityPoint THEN R ELSE curve_add(curve, Q, R))
             ELSE Q,
             curve_double(curve, R),
             scalar \div 2)
    ELSE Q

\* A wrong double-and-add that skips the lowest bit of the scalar
scalar_mult_NoLowBit(curve, R, scalar) ==
    IF R = IdentityPoint THEN IdentityPoint
    ELSE scalar_mult_loop(curve, IdentityPoint, curve_double(curve, R),
                          scalar \div 2)

\* DoubleAndAddCurve.scalar_mult
scalar_mult(curve, R, scalar) ==
    IF R = IdentityPoint THEN IdentityPoint
    ELSE scalar_mult_loop(curve, IdentityPoint, R, scalar)

(* -------------------------- x25519/x25519_curve.py --------------------- *)

\* An x25519 that encodes 0 for the point at infinity, as the ladders do
group_law_x25519_ZeroOnIdentity(private_key_bytes, public_key_bytes) ==
    LET k_int == clamp_scalar(private_key_bytes)
        xP == decode_u(public_key_bytes)
        point == recover_point(xP)
    IN  IF ~ IsOk(point) THEN point
        ELSE LET result == scalar_mult("montgomery", point.val, k_int)
             IN  IF result = IdentityPoint
                 THEN encode_u_coordinate(0)
                 ELSE encode_u_coordinate(result.x)

\* X25519Curve.x25519 with the group law of X25519CurveGroupLaw
group_law_x25519(private_key_bytes, public_key_bytes) ==
    LET k_int == clamp_scalar(private_key_bytes)
        xP == decode_u(public_key_bytes)
        point == recover_point(xP)
    IN  IF ~ IsOk(point) THEN point
        ELSE LET result == scalar_mult("montgomery", point.val, k_int)
             IN  IF result = IdentityPoint
                 THEN Raise("ValueError", "Resulting point is the point at infinity")
                 ELSE encode_u_coordinate(result.x)

Strategies == Ladders \cup {"GroupLaw"}

\* x25519 of the strategy object
x25519(strategy, k_bytes, u_bytes) ==
    IF strategy = "GroupLaw" THEN group_law_x25519(k_bytes, u_bytes)
    ELSE ladder_x25519(strategy, k_bytes, u_bytes)

(* --------------- x25519/elliptic_curve_diffie_hellman.py --------------- *)

\* base_point = b'\x09' + (b'\x00' * 31): the encoding of the least
\* x-coordinate (36) of a point of order q on the Montgomery curve
base_point == <<4, 1>>

\* EllipticCurveDiffieHellman.compute_public_key
compute_public_key(dh) == x25519(dh.strategy, dh.private_key, base_point)

\* EllipticCurveDiffieHellman.__init__
NewDiffieHellman(private_key, strategy) ==
    LET dh == [private_key |-> private_key, strategy |-> strategy]
    IN  [private_key |-> private_key, strategy |-> strategy,
         public_key |-> compute_public_key(dh)]

\* A wrong key agreement: the peer's key is ignored for the base point
generate_shared_secret_OfBase(dh, peer_public_key) ==
    x25519(dh.strategy, dh.private_key, base_point)

\* EllipticCurveDiffieHellman.generate_shared_secret
generate_shared_secret(dh, peer_public_key) ==
    x25519(dh.strategy, dh.private_key, peer_public_key)

(* ------------------ ed25519/edwards_signature_scheme.py ---------------- *)

\* SHA-512 is not computed.  It is a table filled on demand: the digest of an
\* input hashed before is the one it had then, the digest of a new input is
\* fresh, any value of the digest set.
hash_function(table, plain_text, fresh) ==
    IF plain_text \in DOMAIN table THEN table[plain_text] ELSE fresh

\* the table after hash_function(table, plain_text, fresh)
hashed(table, plain_text, fresh) ==
    IF plain_text \in DOMAIN table THEN table
    ELSE [x \in DOMAIN table \cup {plain_text} |->
             IF x = plain_text THEN fresh ELSE table[x]]

\* Ed25519.__init__: the object, given the digest of the secret key
NewEd25519(hashed_secret_key, curve_name) ==
    LET s_bits == SubSeq(hashed_secret_key, 1, KEY_SIZE)
        s_int == clamp_scalar(s_bits)
        public_point == scalar_mult(curve_name, curve_B(curve_name), s_int)
        public_key == curve_compress(curve_name, public_point)
    IN  IF ~ IsOk(public_key) THEN public_key
        ELSE Ok([curve |-> curve_name,
                 hashed_secret_key |-> hashed_secret_key,
                 s_int |-> s_int,
                 public_key |-> public_key.val])

\* A sign that keeps the nonce r in the object, in place of the scalar s
sign_KeepsNonce(self, msg, table, fresh_r, fresh_k) ==
    LET prefix == SubSeq(self.hashed_secret_key, KEY_SIZE + 1, 2 * KEY_SIZE)
        r_hash == hash_function(table, prefix \o msg, fresh_r)
        table_r == hashed(table, prefix \o msg, fresh_r)
        r_int == from_bytes(r_hash) % q
        R_point == scalar_mult(self.curve, curve_B(self.curve), r_int)
        R_comp == curve_compress(self.curve, R_point)
        after == [self EXCEPT !.s_int = r_int]
    IN  IF ~ IsOk(R_comp)
        THEN [result |-> R_comp, table |-> table_r, self |-> after]
        ELSE LET k_input == R_comp.val \o self.public_key \o msg
                 k_hash == hash_function(table_r, k_input, fresh_k)
                 k_int == from_bytes(k_hash) % q
                 t_int == (r_int + k_int * self.s_int) % q
                 t_bytes == to_bytes(t_int, KEY_SIZE)
             IN  [result |-> IF IsOk(t_bytes)
                             THEN Ok(R_comp.val \o t_bytes.val) ELSE t_bytes,
                  table |-> hashed(table_r, k_input, fresh_k),
                  self |-> after]

\* Ed25519.sign: what it returns or raises, the hash table afterwards, and the
\* object afterwards (sign assigns no attribute of self)
sign(self, msg, table, fresh_r, fresh_k) ==
    LET prefix == SubSeq(self.hashed_secret_key, KEY_SIZE + 1, 2 * KEY_SIZE)
        r_hash == hash_function(table, prefix \o msg, fresh_r)
        table_r == hashed(table, prefix \o msg, fresh_r)
        r_int == from_bytes(r_hash) % q
        R_point == scalar_mult(self.curve, curve_B(self.curve), r_int)
        R_comp == curve_compress(self.curve, R_point)
    IN  IF ~ IsOk(R_comp)
        THEN [result |-> R_comp, table |-> table_r, self |-> self]
        ELSE LET k_input == R_comp.val \o self.public_key \o msg
                 k_hash == hash_function(table_r, k_input, fresh_k)
                 k_int == from_bytes(k_hash) % q
                 t_int == (r_int + k_int * self.s_int) % q
                 t_bytes == to_bytes(t_int, KEY_SIZE)
             IN  [result |-> IF IsOk(t_bytes)
                             THEN Ok(R_comp.val \o t_bytes.val) ELSE t_bytes,
                  table |-> hashed(table_r, k_input, fresh_k),
                  self |-> self]

\* Ed25519.get_public_key
get_public_key(self) == self.public_key

\* A try block without the except clause: a ValueError of uncompress propagates
verify_uncompress_NoExcept(curve_name, R_comp, pk) ==
    LET R == curve_uncompress(curve_name, R_comp)
        A == curve_uncompress(curve_name, pk)
    IN  IF ~ IsOk(R) THEN [outcome |-> "raise", exc |-> R]
        ELSE IF ~ IsOk(A) THEN [outcome |-> "raise", exc |-> A]
        ELSE [outcome |-> "points", R |-> R.val, A |-> A.val]

\* The try block of Ed25519.verify: the points R and A, or the "return False"
\* of the except clause; an exception that is not a ValueError propagates.
verify_uncompress(curve_name, R_comp, pk) ==
    LET R == curve_uncompress(curve_name, R_comp)
        A == curve_uncompress(curve_name, pk)
        exc == IF ~ IsOk(R) THEN R ELSE A
    IN  IF IsOk(R) /\ IsOk(A)
        THEN [outcome |-> "points", R |-> R.val, A |-> A.val]
        ELSE IF exc.err = "ValueError" THEN [outcome |-> "return False"]
        ELSE [outcome |-> "raise", exc |-> exc]

\* Ed25519.verify past the length check: the split of sig, the try block, the
\* challenge and the comparison of [t]B with R + [k]A
verify_equation(self, sig, msg, pk, table, fresh_k) ==
    LET R_comp == SubSeq(sig, 1, KEY_SIZE)
        t_bytes == SubSeq(sig, KEY_SIZE + 1, Len(sig))
        t_int == from_bytes(t_bytes) % q
        points == verify_uncompress(self.curve, R_comp, pk)
    IN  IF points.outcome = "return False"
        THEN [result |-> Ok(FALSE), table |-> table]
        ELSE IF points.outcome = "raise"
        THEN [result |-> points.exc, table |-> table]
        ELSE LET k_input == R_comp \o pk \o msg
                 k_hash == hash_function(table, k_input, fresh_k)
                 k_int == from_bytes(k_hash) % q
                 LHS == scalar_mult(self.curve, curve_B(self.curve), t_int)
                 kA == scalar_mult(self.curve, points.A, k_int)
                 RHS == curve_add(self.curve, points.R, kA)
             IN  [result |-> Ok(curve_point_equals(self.curve, LHS, RHS)),
                  table |-> hashed(table, k_input, fresh_k)]

\* A verify that answers False to a signature of the wrong length
verify_FalseOnBadLength(self, sig, msg, pk, table, fresh_k) ==
    IF Len(sig) # SIG_SIZE
    THEN [result |-> Ok(FALSE), table |-> table]
    ELSE verify_equation(self, sig, msg, pk, table, fresh_k)

\* Ed25519.verify: what it returns or raises, and the hash table afterwards
verify(self, sig, msg, pk, table, fresh_k) ==
    IF Len(sig) # SIG_SIZE
    THEN [result |-> Raise("ValueError", "Signature must be 64 bytes"),
          table |-> table]
    ELSE verify_equation(self, sig, msg, pk, table, fresh_k)

(* ------------------------------- state --------------------------------- *)

VARIABLES
    k_bytes,   \* X25519: the scalar handed to x25519
    u_bytes,   \* X25519: the u-coordinate handed to x25519
    out,       \* X25519: what each strategy's x25519 returned or raised
    alice,     \* key agreement: one EllipticCurveDiffieHellman object
    bob,       \* key agreement: the peer's object
    shared,    \* key agreement: what generate_shared_secret returned, per party
    curve,     \* Edwards arithmetic: which curve object is in use
    regP,      \* Edwards arithmetic: a point held by the caller
    regQ,      \* Edwards arithmetic: a second point held by the caller
    last,      \* Edwards arithmetic: the last call, its operands and result
    ops,       \* Edwards arithmetic: the number of calls made
    signer,    \* Ed25519: the Ed25519 object
    digests,   \* Ed25519: the SHA-512 digests computed so far, by input
    sigs,      \* signing: what sign returned or raised, per message
    verdicts,  \* signing: what verify returned on the signer's own signature
    vsig,      \* verification: the signature handed to verify
    vmsg,      \* verification: the message handed to verify
    vpk,       \* verification: the public key handed to verify
    vout,      \* verification: what verify returned or raised
    call,      \* helpers: the call of a pure function and its result
    ladder     \* ladder run: the strategy, its inputs and its loop state

vars == <<k_bytes, u_bytes, out, alice, bob, shared,
          curve, regP, regQ, last, ops,
          signer, digests, sigs, verdicts, vsig, vmsg, vpk, vout,
          call, ladder>>
varsX == <<k_bytes, u_bytes, out>>
varsDH == <<alice, bob, shared>>
varsCurve == <<curve, regP, regQ, last, ops>>
varsSign == <<sigs, verdicts>>
varsVerify == <<vsig, vmsg, vpk, vout>>
varsEd == <<signer, digests, sigs, verdicts, vsig, vmsg, vpk, vout>>
varsUtil == <<call>>
varsLadder == <<ladder>>

\* the value of a result before the call was made
NotCalled == [err |-> "notcalled", msg |-> "", val |-> 0]
Called(r) == r.err # "notcalled"

\* two calls ended the same way: the same return value, or the same exception
SameResult(r1, r2) ==
    /\ r1.err = r2.err
    /\ r1.msg = r2.msg
    /\ IsOk(r1) => r1.val = r2.val

IdleX == k_bytes = <<>> /\ u_bytes = <<>> /\ out = <<>>
IdleDH == alice = NotCalled /\ bob = NotCalled /\ shared = <<>>
IdleCurve ==
    /\ curve = "none" /\ regP = IdentityPoint /\ regQ = IdentityPoint
    /\ last = [op |-> "none"] /\ ops = 0
IdleSign == sigs = <<>> /\ verdicts = <<>>
IdleVerify == vsig = <<>> /\ vmsg = <<>> /\ vpk = <<>> /\ vout = NotCalled
IdleEd == signer = NotCalled /\ digests = <<>> /\ IdleSign /\ IdleVerify
IdleUtil == call = [fn |-> "none"]
IdleLadder == ladder = [strategy |-> "none"]

(* ------------------- X25519: one call per strategy --------------------- *)

\* The scalars handed to x25519 and used as private keys: one byte string for
\* each of the values clamp_scalar can take on keys whose low byte clamps to
\* 8 or 24, most of them changed by the clamping.
ScalarLowBytes == {8, 31}
ScalarHighBytes == {0, 9, 2, 11, 20, 29, 6, 31}
ScalarInputs == {<<lo, hi>> : lo \in ScalarLowBytes, hi \in ScalarHighBytes}

InitX ==
    /\ k_bytes \in ScalarInputs
    /\ u_bytes \in KeyBytes
    /\ out = [s \in Strategies |-> NotCalled]
    /\ IdleDH
    /\ IdleCurve
    /\ IdleEd
    /\ IdleUtil
    /\ IdleLadder

\* impl.x25519(k_bytes, u_bytes) on the strategy object impl
CallX25519(strategy) ==
    /\ ~ Called(out[strategy])
    /\ out' = [out EXCEPT ![strategy] = x25519(strategy, k_bytes, u_bytes)]
    /\ UNCHANGED <<k_bytes, u_bytes, varsDH, varsCurve, varsEd, varsUtil, varsLadder>>

CallRFC7748 == CallX25519("RFC7748")
CallMKTutorial == CallX25519("MKTutorial")
CallOptimized == CallX25519("Optimized")
CallGroupLaw == CallX25519("GroupLaw")

NextX == CallRFC7748 \/ CallMKTutorial \/ CallOptimized \/ CallGroupLaw

SpecX == InitX /\ [][NextX]_vars

(* ------------------ key agreement between two parties ------------------ *)

Parties == {"alice", "bob"}

InitDH ==
    /\ \E ka \in ScalarInputs, sa \in Strategies :
          alice = NewDiffieHellman(ka, sa)
    /\ \E kb \in ScalarInputs, sb \in Strategies :
          bob = NewDiffieHellman(kb, sb)
    /\ IsOk(alice.public_key)
    /\ IsOk(bob.public_key)
    /\ shared = [x \in Parties |-> NotCalled]
    /\ IdleX
    /\ IdleCurve
    /\ IdleEd
    /\ IdleUtil
    /\ IdleLadder

AliceSharedSecret ==
    /\ ~ Called(shared["alice"])
    /\ shared' = [shared EXCEPT
                    !["alice"] = generate_shared_secret(alice, bob.public_key.val)]
    /\ UNCHANGED <<alice, bob, varsX, varsCurve, varsEd, varsUtil, varsLadder>>

BobSharedSecret ==
    /\ ~ Called(shared["bob"])
    /\ shared' = [shared EXCEPT
                    !["bob"] = generate_shared_secret(bob, alice.public_key.val)]
    /\ UNCHANGED <<alice, bob, varsX, varsCurve, varsEd, varsUtil, varsLadder>>

NextDH == AliceSharedSecret \/ BobSharedSecret

SpecDH == InitDH /\ [][NextDH]_vars

(* ------------- Edwards arithmetic: calls on one curve object ----------- *)

\* the scalars handed to scalar_mult: 0 .. MaxScalar and the group order q
MaxScalar == 1
Scalars == 0 .. MaxScalar \cup {q}
\* the number of calls made on the curve object
MaxOps == 3
\* the second operand is the identity, the base point or a point with a small y
MaxSecondY == 2

\* what uncompress returns on the byte strings of comps that decode
Uncompressed(c, comps) ==
    {curve_uncompress(c, comp).val :
        comp \in {b \in comps : IsOk(curve_uncompress(c, b))}}

\* The points a caller can hold before any arithmetic: the identity and what
\* uncompress returns.
LoadedPoints(c) == {IdentityPoint} \cup Uncompressed(c, KeyBytes)

SecondPoints(c) ==
    {IdentityPoint, curve_B(c)}
        \cup Uncompressed(c, {<<y, 0>> : y \in 0 .. MaxSecondY})

InitCurve ==
    /\ curve \in EdwardsCurves
    /\ regP \in LoadedPoints(curve)
    /\ regQ \in SecondPoints(curve)
    /\ last = [op |-> "none"]
    /\ ops = 0
    /\ IdleX
    /\ IdleDH
    /\ IdleEd
    /\ IdleUtil
    /\ IdleLadder

\* curve.add(P, Q) on the two points held, in either order
DoAdd ==
    /\ ops < MaxOps
    /\ \E swapped \in BOOLEAN :
          LET P == IF swapped THEN regQ ELSE regP
              Q == IF swapped THEN regP ELSE regQ
              R == curve_add(curve, P, Q)
          IN  /\ last' = [op |-> "add", P |-> P, Q |-> Q, out |-> R]
              /\ regP' = R
    /\ ops' = ops + 1
    /\ UNCHANGED <<curve, regQ, varsX, varsDH, varsEd, varsUtil, varsLadder>>

\* curve.double(P)
DoDouble ==
    /\ ops < MaxOps
    /\ LET R == curve_double(curve, regP)
       IN  /\ last' = [op |-> "double", P |-> regP, out |-> R]
           /\ regP' = R
    /\ ops' = ops + 1
    /\ UNCHANGED <<curve, regQ, varsX, varsDH, varsEd, varsUtil, varsLadder>>

\* curve.scalar_mult(P, n)
DoScalarMult ==
    /\ ops < MaxOps
    /\ \E n \in Scalars :
          LET R == scalar_mult(curve, regP, n)
          IN  /\ last' = [op |-> "scalar_mult", P |-> regP, n |-> n, out |-> R]
              /\ regP' = R
    /\ ops' = ops + 1
    /\ UNCHANGED <<curve, regQ, varsX, varsDH, varsEd, varsUtil, varsLadder>>

\* curve.compress(P)
DoCompress ==
    /\ ops < MaxOps
    /\ last' = [op |-> "compress", P |-> regP, out |-> curve_compress(curve, regP)]
    /\ ops' = ops + 1
    /\ UNCHANGED <<curve, regP, regQ, varsX, varsDH, varsEd, varsUtil, varsLadder>>

\* curve.uncompress(comp) on the bytes compress has just returned for the
\* point P
DoUncompress ==
    /\ ops < MaxOps
    /\ last.op = "compress"
    /\ IsOk(last.out)
    /\ LET r == curve_uncompress(curve, last.out.val)
       IN  /\ last' = [op |-> "uncompress", P |-> last.P,
                       comp |-> last.out.val, out |-> r]
           /\ regQ' = IF IsOk(r) THEN r.val ELSE regQ
    /\ ops' = ops + 1
    /\ UNCHANGED <<curve, regP, varsX, varsDH, varsEd, varsUtil, varsLadder>>

\* curve.point_equals(P, Q) on the two points held
DoPointEquals ==
    /\ ops < MaxOps
    /\ last' = [op |-> "point_equals", P |-> regP, Q |-> regQ,
                out |-> curve_point_equals(curve, regP, regQ)]
    /\ ops' = ops + 1
    /\ UNCHANGED <<curve, regP, regQ, varsX, varsDH, varsEd, varsUtil, varsLadder>>

NextCurve ==
    \/ DoAdd \/ DoDouble \/ DoScalarMult
    \/ DoCompress \/ DoUncompress \/ DoPointEquals

SpecCurve == InitCurve /\ [][NextCurve]_vars

(* ------------------------ Ed25519: sign and verify --------------------- *)

\* The digests SHA-512 can return: as little-endian integers 0 .. MaxHashValue
\* and q, so that they cover 0 and a non-zero multiple of q.
MaxHashValue == 2
HashOutputs ==
    {to_bytes(v, 2 * KEY_SIZE).val : v \in (0 .. MaxHashValue) \cup {q}}

\* the messages signed and verified
Msgs == {<<>>, <<1>>}

\* the secret key (seed) of the signer
SecretKey == <<1, 0>>

\* Ed25519(secret_key, curve) was constructed; SHA-512 gave some digest of
\* the secret key.
Constructed(hkeys) ==
    \E c \in EdwardsCurves, h \in hkeys :
        /\ IsOk(NewEd25519(h, c))
        /\ signer = NewEd25519(h, c).val
        /\ digests = hashed(<<>>, SecretKey, h)

InitSign ==
    /\ Constructed(HashOutputs)
    /\ sigs = [m \in Msgs |-> NotCalled]
    /\ verdicts = [m \in Msgs |-> NotCalled]
    /\ IdleVerify
    /\ IdleX
    /\ IdleDH
    /\ IdleCurve
    /\ IdleUtil
    /\ IdleLadder

\* sig = signer.sign(msg)
Sign ==
    /\ \E m \in Msgs, fresh_r \in HashOutputs, fresh_k \in HashOutputs :
          \E r \in {sign(signer, m, digests, fresh_r, fresh_k)} :
              /\ sigs' = [sigs EXCEPT ![m] = r.result]
              /\ digests' = r.table
              /\ signer' = r.self
    /\ UNCHANGED <<verdicts, varsVerify, varsX, varsDH, varsCurve, varsUtil, varsLadder>>

\* signer.verify(sig, msg, signer.get_public_key()) on the signature that
\* sign returned for msg
VerifyOwn ==
    /\ \E m \in Msgs, fresh_k \in HashOutputs :
          /\ IsOk(sigs[m])
          /\ \E v \in {verify(signer, sigs[m].val, m, signer.public_key,
                              digests, fresh_k)} :
                 /\ verdicts' = [verdicts EXCEPT ![m] = v.result]
                 /\ digests' = v.table
    /\ UNCHANGED <<signer, sigs, varsVerify, varsX, varsDH, varsCurve, varsUtil, varsLadder>>

NextSign == Sign \/ VerifyOwn

SpecSign == InitSign /\ [][NextSign]_vars

(* ------------------- Ed25519: verify on any signature ------------------ *)

\* The compressed points handed to verify, as R and as the public key: y in
\* 0 .. MaxY with either sign bit, the y around p (p - 1 is a point of order
\* 2, p and p + 1 are out of range), and the multiples 1 .. MaxMultiple of B.
MaxY == 7
MaxMultiple == 3
PointInputs ==
    {<<y, s>> : y \in 0 .. MaxY, s \in {0, TopBit}}
        \cup {to_bytes(y, KEY_SIZE).val : y \in p - 1 .. p + 1}
        \cup {affine_compress(scalar_mult("affine", BasePoint, n)).val :
                 n \in 1 .. MaxMultiple}

\* The t of a signature: 0 .. MaxT, and q and q + 1 (0 and 1 mod q)
MaxT == 4
ScalarBytes == {to_bytes(t, KEY_SIZE).val : t \in (0 .. MaxT) \cup {q, q + 1}}

\* signatures of the right length, and of a wrong one
SigInputs ==
    {R \o t : R \in PointInputs, t \in ScalarBytes}
        \cup {<<>>, <<0, 0, 0>>, <<0, 0, 0, 0, 0>>}

InitVerify ==
    /\ Constructed({to_bytes(1, 2 * KEY_SIZE).val})
    /\ vsig \in SigInputs
    /\ vmsg \in Msgs
    /\ vpk \in PointInputs
    /\ vout = NotCalled
    /\ IdleSign
    /\ IdleX
    /\ IdleDH
    /\ IdleCurve
    /\ IdleUtil
    /\ IdleLadder

\* signer.verify(sig, msg, pk)
Verify ==
    /\ ~ Called(vout)
    /\ \E fresh_k \in HashOutputs :
          \E v \in {verify(signer, vsig, vmsg, vpk, digests, fresh_k)} :
              /\ vout' = v.result
              /\ digests' = v.table
    /\ UNCHANGED <<signer, vsig, vmsg, vpk, varsSign, varsX, varsDH, varsCurve, varsUtil, varsLadder>>

NextVerify == Verify

SpecVerify == InitVerify /\ [][NextVerify]_vars

(* ------------- helpers: single calls of the pure functions ------------- *)

\* the largest small modulus tried besides the field prime p
MaxPrime == 41
\* arguments range from -modulus to MaxWrap times the modulus
MaxWrap == 2

IsPrime(x) == x >= 2 /\ \A dv \in 2 .. (x - 1) : x % dv # 0
Primes == {x \in 2 .. MaxPrime : IsPrime(x)} \cup {p}
UtilInts(pr) == (0 - pr) .. (MaxWrap * pr)

InitUtil ==
    /\ IdleUtil
    /\ IdleX
    /\ IdleDH
    /\ IdleCurve
    /\ IdleEd
    /\ IdleLadder

UtilUnchanged == UNCHANGED <<varsX, varsDH, varsCurve, varsEd, varsLadder>>

\* r = sqrt_mod(n, pr)
CallSqrtMod ==
    /\ IdleUtil
    /\ \E pr \in Primes : \E n \in UtilInts(pr) :
          \E v \in {sqrt_mod(n, pr)} :
              call' = [fn |-> "sqrt_mod", n |-> n, p |-> pr, out |-> v]
    /\ UtilUnchanged

\* r = tonelli(n, pr)
CallTonelli ==
    /\ IdleUtil
    /\ \E pr \in Primes : \E n \in UtilInts(pr) :
          \E v \in {tonelli(n, pr)} :
              call' = [fn |-> "tonelli", n |-> n, p |-> pr, out |-> v]
    /\ UtilUnchanged

\* r = tonelli_shanks(n, pr)
CallTonelliShanks ==
    /\ IdleUtil
    /\ \E pr \in Primes : \E n \in UtilInts(pr) :
          \E v \in {tonelli_shanks(n, pr)} :
              call' = [fn |-> "tonelli_shanks", n |-> n, p |-> pr, out |-> v]
    /\ UtilUnchanged

\* r = modinv(n, pr)
CallModinv ==
    /\ IdleUtil
    /\ \E pr \in Primes : \E n \in UtilInts(pr) :
          \E v \in {modinv(n, pr)} :
              call' = [fn |-> "modinv", n |-> n, p |-> pr, out |-> Ok(v)]
    /\ UtilUnchanged

\* k = bytearray(...); r = clamp_scalar(k): buf is k after the call
CallClampScalar ==
    /\ IdleUtil
    /\ \E k \in KeyBytes :
          call' = [fn |-> "clamp_scalar", k |-> k, buf |-> clamp_bytes(k),
                   out |-> Ok(clamp_scalar(k))]
    /\ UtilUnchanged

\* P = c.uncompress(comp) on any byte string of the key length
CallUncompress ==
    /\ IdleUtil
    /\ \E c \in EdwardsCurves : \E comp \in KeyBytes :
          \E v \in {curve_uncompress(c, comp)} :
              call' = [fn |-> "uncompress", curve |-> c, comp |-> comp,
                       out |-> v]
    /\ UtilUnchanged

NextUtil ==
    \/ CallSqrtMod \/ CallTonelli \/ CallTonelliShanks
    \/ CallModinv \/ CallClampScalar \/ CallUncompress

SpecUtil == InitUtil /\ [][NextUtil]_vars

(* ------------- ladder run: scalar_mult, one loop iteration a step ------ *)

\* the scalars x25519 hands to scalar_mult, and the u-coordinates
LadderScalars == {clamp_scalar(kb) : kb \in KeyBytes}
LadderInputs == {decode_u(ub) : ub \in KeyBytes}

\* the local variables of scalar_mult before the loop:
\* <<x2, z2, x3, z3, swap>>, <<X0, Z0, X1, Z1, swap>> or <<a, b, c, d>>
ladder_entry(strategy, u_int) ==
    IF strategy = "Optimized" THEN <<1, u_int, 0, 1>>
    ELSE <<1, 0, u_int, 1, 0>>

\* what scalar_mult returns from the local variables after the loop
ladder_return(strategy, st) ==
    CASE strategy = "RFC7748" ->
             LET x2 == IF st[5] = 1 THEN st[3] ELSE st[1]
                 z2 == IF st[5] = 1 THEN st[4] ELSE st[2]
             IN  (x2 * modinv(z2, p)) % p
      [] strategy = "MKTutorial" ->
             LET xs == cswap(st[5], st[1], st[3], p)
                 zs == cswap(st[5], st[2], st[4], p)
             IN  projective_to_affine(xs[1], zs[1], p)
      [] strategy = "Optimized" -> (st[1] * modinv(st[3], p)) % p

\* scalar_mult(k_int, u_int) has been entered: t is the next bit of the loop
InitLadder ==
    /\ \E strategy \in Ladders, k_int \in LadderScalars, u_int \in LadderInputs :
          ladder = [strategy |-> strategy, k |-> k_int, u |-> u_int,
                    t |-> LadderBits - 1, st |-> ladder_entry(strategy, u_int),
                    out |-> NoneInt]
    /\ IdleX
    /\ IdleDH
    /\ IdleCurve
    /\ IdleEd
    /\ IdleUtil

LadderUnchanged == UNCHANGED <<varsX, varsDH, varsCurve, varsEd, varsUtil>>

\* one iteration of the loop of MontgomeryLadderRFC7748.scalar_mult
StepRFC7748 ==
    /\ ladder.strategy = "RFC7748"
    /\ ladder.t >= 0
    /\ ladder' = [ladder EXCEPT
                     !.st = RFC7748_step(@, BitOf(ladder.k, ladder.t), ladder.u),
                     !.t = @ - 1]
    /\ LadderUnchanged

\* one iteration of the loop of MontgomeryLadderMKTutorial.scalar_mult
StepMKTutorial ==
    /\ ladder.strategy = "MKTutorial"
    /\ ladder.t >= 0
    /\ ladder' = [ladder EXCEPT
                     !.st = MKTutorial_step(@, BitOf(ladder.k, ladder.t), ladder.u),
                     !.t = @ - 1]
    /\ LadderUnchanged

\* one iteration of the loop of MontgomeryLadderOptimized.scalar_mult
StepOptimized ==
    /\ ladder.strategy = "Optimized"
    /\ ladder.t >= 0
    /\ ladder' = [ladder EXCEPT
                     !.st = Optimized_step(@, BitOf(ladder.k, ladder.t), ladder.u),
                     !.t = @ - 1]
    /\ LadderUnchanged

\* the loop is over: the final swap, the inversion and the return
LadderReturn ==
    /\ ladder.strategy \in Ladders
    /\ ladder.t < 0
    /\ ladder.out = NoneInt
    /\ ladder' = [ladder EXCEPT !.out = ladder_return(ladder.strategy, ladder.st)]
    /\ LadderUnchanged

NextLadder == StepRFC7748 \/ StepMKTutorial \/ StepOptimized \/ LadderReturn

SpecLadder == InitLadder /\ [][NextLadder]_vars

(* ---------------------------- claims: X25519 -------------------------- *)

\* C1: for every scalar k and every u, the three ladder strategies
\* (RFC 7748, MK tutorial, optimized) return the same bytes from x25519(k, u).
C1_LaddersAgree ==
    \A s1, s2 \in Ladders :
        (Called(out[s1]) /\ Called(out[s2]))
            => (IsOk(out[s1]) /\ SameResult(out[s1], out[s2]))

\* C1 witness: all three ladders have returned, on a scalar whose clamping
\* changes it and a u that is not reduced mod p.
C1_Witness ==
    /\ \A s \in Ladders : IsOk(out[s])
    /\ from_bytes(k_bytes) # clamp_scalar(k_bytes)
    /\ decode_u(u_bytes) >= p
    /\ from_bytes(out["Optimized"].val) # 0

\* C2: Diffie-Hellman agreement.  For all private keys a and b and every
\* strategy plugged into either party, generate_shared_secret gives
\* x25519(a, pkB) = x25519(b, pkA).
C2_SharedSecretsAgree ==
    (Called(shared["alice"]) /\ Called(shared["bob"]))
        => /\ IsOk(shared["alice"])
           /\ SameResult(shared["alice"], shared["bob"])

\* C2 witness: both parties have their secret, from different private keys
\* and different strategies, one of them the group law.
C2_Witness ==
    /\ shared # <<>>
    /\ IsOk(shared["alice"]) /\ IsOk(shared["bob"])
    /\ clamp_scalar(alice.private_key) # clamp_scalar(bob.private_key)
    /\ alice.strategy = "GroupLaw" /\ bob.strategy = "Optimized"
    /\ shared["alice"].val # alice.public_key.val

\* the squares of GF(p)
FieldSquares == {(y * y) % p : y \in 0 .. p - 1}

\* u is the x-coordinate of a point of the Montgomery curve
\* y^2 = x^3 + A x^2 + x over GF(p)
OnMontgomeryCurve(u) ==
    LET x == u % p
    IN  (x * x * x + CurveA * x * x + x) % p \in FieldSquares

\* C5 as stated: for every scalar k and every u on the Montgomery curve the
\* group-law strategy's x25519(k, u) returns the same bytes as the ladders'.
C5_GroupLawEqualsLadders ==
    \A s \in Ladders :
        ( /\ out # <<>>
          /\ Called(out["GroupLaw"]) /\ Called(out[s])
          /\ OnMontgomeryCurve(decode_u(u_bytes)) )
            => SameResult(out["GroupLaw"], out[s])

\* C5 amended: for every scalar k and every u on the Montgomery curve, when
\* k*P is not the identity (the ladders' result is not zero) the group-law
\* strategy returns the same bytes as the ladders; when k*P is the identity
\* (u of low order) the ladders return zero bytes and the group-law strategy
\* raises ValueError "Resulting point is the point at infinity".
C5_GroupLawEqualsLaddersOffIdentity ==
    \A s \in Ladders :
        ( /\ out # <<>>
          /\ Called(out["GroupLaw"]) /\ Called(out[s])
          /\ OnMontgomeryCurve(decode_u(u_bytes)) )
            => /\ IsOk(out[s])
               /\ IF from_bytes(out[s].val) # 0
                  THEN SameResult(out["GroupLaw"], out[s])
                  ELSE SameResult(out["GroupLaw"],
                         Raise("ValueError", "Resulting point is the point at infinity"))

\* C5 witness: the group law and a ladder have both returned the same non-zero
\* bytes for a u on the curve that is not the base point.
C5_Witness ==
    /\ out # <<>>
    /\ OnMontgomeryCurve(decode_u(u_bytes))
    /\ u_bytes # base_point
    /\ IsOk(out["GroupLaw"]) /\ IsOk(out["RFC7748"])
    /\ out["GroupLaw"].val = out["RFC7748"].val
    /\ from_bytes(out["GroupLaw"].val) # 0

\* the bytes of (u_bytes with the top bit cleared) mod p
CanonicalU(u) ==
    to_bytes((from_bytes(u) % (2 ^ LadderBits)) % p, KEY_SIZE).val

\* C16: x25519(k, u_bytes) depends on u_bytes only through the integer
\* (u_bytes with the top bit cleared) mod p.  For every strategy, what
\* x25519 returned or raised is what it returns or raises on the canonical
\* bytes of that integer: toggling the top bit, or replacing u in [p, 2^255)
\* by u - p, leaves the outcome unchanged.
C16_DependsOnReducedU ==
    \A s \in Strategies :
        (out # <<>> /\ Called(out[s]))
            => SameResult(out[s], x25519(s, k_bytes, CanonicalU(u_bytes)))

\* C16 witness: the ladders and the group law have returned non-zero bytes for
\* a u with the top bit set and the rest in [p, 2^255).
C16_Witness ==
    /\ out # <<>>
    /\ u_bytes[KEY_SIZE] >= TopBit
    /\ decode_u(u_bytes) >= p
    /\ u_bytes # CanonicalU(u_bytes)
    /\ \A s \in Strategies : IsOk(out[s])
    /\ from_bytes(out["GroupLaw"].val) # 0

\* the final denominator z of a ladder: the z2 that scalar_mult inverts after
\* its loop
FinalZ(strategy, k_int, u_int) ==
    CASE strategy = "RFC7748" ->
           LET st == RFC7748_loop(LadderBits - 1, <<1, 0, u_int, 1, 0>>,
                                  k_int, u_int)
           IN  IF st[5] = 1 THEN st[4] ELSE st[2]
      [] strategy = "MKTutorial" ->
           LET st == MKTutorial_loop(LadderBits - 1, <<1, 0, u_int, 1, 0>>,
                                     k_int, u_int)
           IN  cswap(st[5], st[2], st[4], p)[1]
      [] strategy = "Optimized" ->
           Optimized_loop(LadderBits - 1, <<1, u_int, 0, 1>>, k_int, u_int)[3]

\* C17: for every k and every u (on the curve, on the twist, or u = 0 mod p)
\* each ladder's x25519 returns without raising; its output is KEY_SIZE (32)
\* bytes, the little-endian encoding of an integer in [0, p); and when the
\* final denominator z is 0 the output is all zero bytes.
C17_LaddersReturnReduced ==
    \A s \in Ladders :
        (out # <<>> /\ Called(out[s])) =>
            /\ IsOk(out[s])
            /\ Len(out[s].val) = KEY_SIZE
            /\ from_bytes(out[s].val) \in 0 .. p - 1
            /\ FinalZ(s, clamp_scalar(k_bytes), decode_u(u_bytes)) % p = 0
                  => out[s].val = [i \in 1 .. KEY_SIZE |-> 0]

\* C17 witness: the three ladders have returned zero bytes, with a final
\* denominator 0, for a u that is not 0 mod p (a point of low order).
C17_Witness ==
    /\ out # <<>>
    /\ decode_u(u_bytes) % p # 0
    /\ \A s \in Ladders :
          /\ IsOk(out[s])
          /\ FinalZ(s, clamp_scalar(k_bytes), decode_u(u_bytes)) % p = 0
          /\ from_bytes(out[s].val) = 0

\* k * P is the point at infinity, for P a point of x-coordinate u: the
\* x-only ladder ends with the denominator 0
MultipleIsInfinity(k_int, u_int) == FinalZ("RFC7748", k_int, u_int) % p = 0

\* C18: the group-law x25519(k, u) fails with the point-at-infinity
\* ValueError exactly when k * P is the identity, fails with the 'no valid y'
\* ValueError when u is not the x-coordinate of a curve point, and otherwise
\* returns bytes; it never returns bytes for an identity result.
C18_GroupLawFailures ==
    (out # <<>> /\ Called(out["GroupLaw"])) =>
        LET k_int == clamp_scalar(k_bytes)
            u_int == decode_u(u_bytes)
        IN  IF ~ OnMontgomeryCurve(u_int)
            THEN SameResult(out["GroupLaw"],
                            Raise("ValueError", "No valid y for given x"))
            ELSE IF MultipleIsInfinity(k_int, u_int)
            THEN SameResult(out["GroupLaw"],
                     Raise("ValueError", "Resulting point is the point at infinity"))
            ELSE IsOk(out["GroupLaw"])

\* C18 witness: the group law raised the point-at-infinity error for a u that
\* is not 0 mod p (a point of order 4 or 8).
C18_Witness ==
    /\ out # <<>>
    /\ decode_u(u_bytes) % p # 0
    /\ out["GroupLaw"].err = "ValueError"
    /\ out["GroupLaw"].msg = "Resulting point is the point at infinity"

\* the point P with x(P) = u that recover_point finds, when u is on the curve
LadderPoint == recover_point(ladder.u % p)

\* the value m of the bits of k processed so far: k >> (t + 1)
LadderPrefix == ladder.k \div (2 ^ (ladder.t + 1))

\* the two projective pairs <<X, Z>> the ladder tracks, the pending swap
\* undone: R0 and R1
LadderR0 ==
    IF ladder.strategy = "Optimized" THEN <<ladder.st[1], ladder.st[3]>>
    ELSE IF ladder.st[5] = 1 THEN <<ladder.st[3], ladder.st[4]>>
    ELSE <<ladder.st[1], ladder.st[2]>>
LadderR1 ==
    IF ladder.strategy = "Optimized" THEN <<ladder.st[2], ladder.st[4]>>
    ELSE IF ladder.st[5] = 1 THEN <<ladder.st[1], ladder.st[2]>>
    ELSE <<ladder.st[3], ladder.st[4]>>

\* X/Z is the x-coordinate of the point R; (1:0) stands for the identity
Represents(XZ, R) ==
    IF R = IdentityPoint THEN XZ[2] % p = 0
    ELSE XZ[2] % p # 0 /\ XZ[1] % p = (R.x * XZ[2]) % p

\* [n]P under the affine group law of X25519CurveGroupLaw
LadderMultiple(n) == scalar_mult("montgomery", LadderPoint.val, n)

\* C30: the ladder loop invariant.  In each ladder, after the bits 254..t of
\* k have been processed, with m = k >> t the value of those bits, the two
\* tracked projective pairs (the pending swap undone) satisfy
\* X0/Z0 = x([m]P) and X1/Z1 = x([m+1]P) for the input point P with
\* x(P) = u, (1:0) standing for the identity; hence the value returned,
\* X0 * Z0^-1, is the x-coordinate of [k]P under the affine group law.
C30_LadderInvariant ==
    (ladder.strategy \in Ladders /\ IsOk(LadderPoint)) =>
        /\ Represents(LadderR0, LadderMultiple(LadderPrefix))
        /\ Represents(LadderR1, LadderMultiple(LadderPrefix + 1))
        /\ (ladder.out # NoneInt /\ LadderMultiple(ladder.k) # IdentityPoint)
              => ladder.out = LadderMultiple(ladder.k).x

\* C30, amended: the loop invariant holds for every u on the curve with
\* u mod p # 0; and for every u on the curve, 0 included, the value returned
\* is the x-coordinate of [k]P, or 0 when [k]P is the identity.  For
\* u mod p = 0 the differential addition multiplies Z by x1 = 0 and the pair
\* that should hold P = (0, 0) becomes (0:0).
C30_LadderInvariantOffZero ==
    (ladder.strategy \in Ladders /\ IsOk(LadderPoint)) =>
        /\ ladder.u % p # 0 =>
               /\ Represents(LadderR0, LadderMultiple(LadderPrefix))
               /\ Represents(LadderR1, LadderMultiple(LadderPrefix + 1))
        /\ ladder.out # NoneInt =>
               ladder.out = IF LadderMultiple(ladder.k) = IdentityPoint THEN 0
                            ELSE LadderMultiple(ladder.k).x

\* the RFC 7748 ladder in the middle of its loop on the base point, with a
\* swap pending and both tracked pairs off the identity
C30_Witness ==
    /\ ladder.strategy = "RFC7748"
    /\ ladder.u = base_point[1] + ByteMod * base_point[2]
    /\ IsOk(LadderPoint)
    /\ ladder.t = 3
    /\ ladder.st[5] = 1
    /\ LadderPrefix > 2
    /\ LadderR0[2] # 0 /\ LadderR1[2] # 0
    /\ Represents(LadderR0, LadderMultiple(LadderPrefix))
    /\ Represents(LadderR1, LadderMultiple(LadderPrefix + 1))

(* ------------------------- claims: util.py helpers --------------------- *)

\* n has a square root modulo pr, by trying every residue
HasRoot(n, pr) == \E r \in 0 .. (pr - 1) : (r * r) % pr = n % pr

\* r is a reduced square root of n modulo pr
IsRootOf(r, n, pr) == r \in 0 .. (pr - 1) /\ (r * r) % pr = n % pr

\* C22: for a prime p = 5 mod 8, sqrt_mod(a, p) returns an r in [0, p) with
\* r * r = a mod p when a is a square modulo p (0 included), and raises the
\* no-square-root ValueError when a is not a square; it never returns a
\* wrong value.
C22_SqrtMod ==
    (call.fn = "sqrt_mod" /\ call.p % 8 = 5) =>
        IF HasRoot(call.n, call.p)
        THEN IsOk(call.out) /\ IsRootOf(call.out.val, call.n, call.p)
        ELSE /\ call.out.err = "ValueError"
             /\ call.out.msg = "No square root exists for the given input."

\* sqrt_mod took its second branch, r * r = -a, on a square a of the field
C22_Witness ==
    /\ call.fn = "sqrt_mod" /\ call.p = p /\ call.n % p # 0
    /\ HasRoot(call.n, p)
    /\ (PowMod(call.n, (p + 3) \div 8, p) ^ 2) % p = (0 - call.n) % p
    /\ IsOk(call.out) /\ IsRootOf(call.out.val, call.n, p)

\* what tonelli and tonelli_shanks return is None for both, or two values
\* with the same square modulo pr
SameSquare(r1, r2, pr) ==
    /\ IsOk(r1) /\ IsOk(r2)
    /\ (r1.val = NoneInt) <=> (r2.val = NoneInt)
    /\ r1.val # NoneInt => (r1.val * r1.val) % pr = (r2.val * r2.val) % pr

\* the result of a square root function on a reduced n: None exactly for
\* the non-residues, and a reduced root otherwise
RootOrNone(r, n, pr) ==
    /\ IsOk(r)
    /\ (r.val = NoneInt) <=> ~ HasRoot(n, pr)
    /\ r.val # NoneInt => IsRootOf(r.val, n, pr)

InvertsUnits ==
    (call.fn = "modinv" /\ call.n % call.p # 0) =>
        /\ IsOk(call.out)
        /\ (call.n * call.out.val) % call.p = 1

\* C24 as claimed: for every prime p, modinv inverts every x with
\* x mod p # 0, and modinv(0, p) == 0.
C24_ModinvZeroIsZero ==
    /\ InvertsUnits
    /\ (call.fn = "modinv" /\ call.n = 0) => call.out.val = 0

\* C24, amended: for every prime p, modinv inverts every x with x mod p # 0;
\* modinv(0, p) == 0 for every odd prime p, and modinv(0, 2) == 1.
C24_ModinvZeroOddPrime ==
    /\ InvertsUnits
    /\ (call.fn = "modinv" /\ call.n = 0 /\ call.p # 2) => call.out.val = 0
    /\ (call.fn = "modinv" /\ call.n = 0 /\ call.p = 2) => call.out.val = 1

\* modinv returned the inverse of a field element that is not its own
\* inverse
C24_Witness ==
    /\ call.fn = "modinv" /\ call.p = p /\ call.n % p # 0
    /\ call.out.val # call.n % p
    /\ (call.n * call.out.val) % p = 1

RECURSIVE BitAnd(_, _)
\* a & b on non-negative integers, bit by bit
BitAnd(a, b) ==
    IF a = 0 \/ b = 0 THEN 0
    ELSE (a % 2) * (b % 2) + 2 * BitAnd(a \div 2, b \div 2)

RECURSIVE BitOr(_, _)
\* a | b on non-negative integers, bit by bit
BitOr(a, b) ==
    IF a = 0 THEN b
    ELSE IF b = 0 THEN a
    ELSE (IF a % 2 = 1 \/ b % 2 = 1 THEN 1 ELSE 0)
             + 2 * BitOr(a \div 2, b \div 2)

AlgorithmError(r) ==
    /\ r.err = "ValueError"
    /\ r.msg = "Algorithm error: t^(2^i) never reached 1"

\* C28: for every odd prime p and every integer n >= 0, reduced or not and
\* the nonzero multiples of p included, tonelli(n, p) never raises the
\* 'Algorithm error' of its inner loop.
C28_NoAlgorithmError ==
    (call.fn = "tonelli" /\ call.p # 2 /\ call.n >= 0) =>
        ~ AlgorithmError(call.out)

(* ----------------------- claims: Edwards arithmetic -------------------- *)

\* the affine coordinates (x, y) of a point of either curve
AffineCoordinates(P) == IF IsExtended(P) THEN to_affine(P) ELSE P

\* C9: compression round-trips.  For every non-identity point P, on both
\* curves, compress(P) is exactly KEY_SIZE (32) bytes and
\* uncompress(compress(P)) has the same affine coordinates (x, y) as P.
C9_CompressRoundTrips ==
    /\ (last.op = "compress" /\ last.P # IdentityPoint)
          => (IsOk(last.out) /\ Len(last.out.val) = KEY_SIZE)
    /\ (last.op = "uncompress" /\ last.P # IdentityPoint)
          => /\ IsOk(last.out)
             /\ last.out.val # IdentityPoint
             /\ AffineCoordinates(last.out.val) = AffineCoordinates(last.P)

\* C9 witness: the round trip of a point with an odd x (the sign bit is set
\* in the bytes) that a doubling produced, on the extended curve.
C9_Witness ==
    /\ last.op = "uncompress"
    /\ curve = "extended"
    /\ last.P # IdentityPoint
    /\ last.P.z # 1
    /\ AffineCoordinates(last.P).x % 2 = 1
    /\ last.comp[KEY_SIZE] >= TopBit
    /\ IsOk(last.out)

\* C10: adding the identity returns the other point unchanged.  For every
\* point P, on both curves, add(P, IdentityPoint) and add(IdentityPoint, P)
\* return a point with the same affine coordinates as P.
C10_AddIdentity ==
    last.op = "add" =>
        /\ (last.Q = IdentityPoint
               => AffineCoordinates(last.out) = AffineCoordinates(last.P))
        /\ (last.P = IdentityPoint
               => AffineCoordinates(last.out) = AffineCoordinates(last.Q))

\* C11: Edwards addition is commutative.  For every pair of points P, Q, on
\* both curves, the add(P, Q) that was called and add(Q, P) have the same
\* affine coordinates.
C11_AddCommutes ==
    last.op = "add" =>
        AffineCoordinates(last.out)
            = AffineCoordinates(curve_add(curve, last.Q, last.P))

\* C11 witness: add was called on the extended curve on two different points,
\* neither the identity, the first one not normalised (z # 1).
C11_Witness ==
    /\ last.op = "add"
    /\ curve = "extended"
    /\ last.P # IdentityPoint /\ last.Q # IdentityPoint
    /\ last.P.z # 1
    /\ AffineCoordinates(last.P) # AffineCoordinates(last.Q)
    /\ AffineCoordinates(last.out) # AffineCoordinates(last.P)

\* C12: for every point P, on both curves, the double(P) that was called and
\* add(P, P) are the same affine point.
C12_DoubleIsAddSelf ==
    last.op = "double" =>
        AffineCoordinates(last.out)
            = AffineCoordinates(curve_add(curve, last.P, last.P))

\* C12 witness: double was called on the extended curve on a point that is
\* not normalised (z # 1) and is not of order 1 or 2.
C12_Witness ==
    /\ last.op = "double"
    /\ curve = "extended"
    /\ last.P # IdentityPoint
    /\ last.P.z # 1
    /\ AffineCoordinates(last.out) # AffinePoint(0, 1)
    /\ AffineCoordinates(last.out) # AffineCoordinates(last.P)

\* the first parts k1 of the splits k1 + k2 = n of a scalar n that are compared
Splits(n) == {k \in Scalars \cup {q - 1} : k <= n}

\* C13: scalar multiplication is additive in the scalar.  For every point P
\* and all scalars k1, k2 >= 0 (0 included), on both curves, the
\* scalar_mult(P, k1 + k2) that was called is the same point as
\* add(scalar_mult(P, k1), scalar_mult(P, k2)).
C13_ScalarMultAdditive ==
    last.op = "scalar_mult" =>
        \A k1 \in Splits(last.n) :
            AffineCoordinates(last.out)
                = AffineCoordinates(
                      curve_add(curve, scalar_mult(curve, last.P, k1),
                                scalar_mult(curve, last.P, last.n - k1)))

\* C14 as stated: scalar_mult(B, q) returns the identity value IdentityPoint,
\* on both curves.
C14_BaseTimesOrderIsIdentityPoint ==
    (last.op = "scalar_mult" /\ last.P = curve_B(curve) /\ last.n = q)
        => last.out = IdentityPoint

\* C14 amended: scalar_mult(B, q) returns the neutral element of the group as
\* an ordinary point, of affine coordinates (0, 1), and not the value
\* IdentityPoint, on both curves.
C14_BaseTimesOrderIsNeutral ==
    (last.op = "scalar_mult" /\ last.P = curve_B(curve) /\ last.n = q)
        => /\ last.out # IdentityPoint
           /\ AffineCoordinates(last.out) = AffinePoint(0, 1)

\* C14 witness: scalar_mult(B, q) was called on the extended curve.
C14_Witness ==
    /\ last.op = "scalar_mult"
    /\ curve = "extended"
    /\ last.P = curve_B(curve)
    /\ last.n = q
    /\ IsExtended(last.out)

\* the coordinates (X, Y, Z) of a point of either curve; Z = 1 for an affine
\* point
Homogeneous(P) == IF IsExtended(P) THEN <<P.x, P.y, P.z>> ELSE <<P.x, P.y, 1>>

\* P and Q, neither the identity, have the same affine projection:
\* X1/Z1 = X2/Z2 and Y1/Z1 = Y2/Z2, by cross-multiplication
SameProjection(P, Q) ==
    LET h1 == Homogeneous(P)
        h2 == Homogeneous(Q)
    IN  /\ (h1[1] * h2[3] - h2[1] * h1[3]) % p = 0
        /\ (h1[2] * h2[3] - h2[2] * h1[3]) % p = 0

\* C15: point_equals(P, Q) is true when either operand is IdentityPoint, and
\* otherwise is true exactly when the affine projections of P and Q are
\* componentwise equal, on both curves.
C15_PointEquals ==
    last.op = "point_equals" =>
        last.out = IF last.P = IdentityPoint \/ last.Q = IdentityPoint
                   THEN TRUE
                   ELSE SameProjection(last.P, last.Q)

\* C15 witness: point_equals answered True on the extended curve to two
\* points, neither the identity, with different coordinates (X, Y, Z, T) and
\* the same affine projection.
C15_Witness ==
    /\ last.op = "point_equals"
    /\ curve = "extended"
    /\ last.P # IdentityPoint /\ last.Q # IdentityPoint
    /\ last.P # last.Q
    /\ last.out = TRUE

\* the sign bit s that uncompress reads: bit 7 of byte 31
SignBit(comp) == (comp[KEY_SIZE] \div TopBit) % 2

\* -x^2 + y^2 = 1 + d * x^2 * y^2 (mod p)
OnEdwardsCurve(x, y) ==
    LET xx == (x * x) % p
        yy == (y * y) % p
    IN  (yy - xx) % p = (1 + ((curve_d * xx) % p) * yy) % p

\* C26: for every 32-byte input on which uncompress succeeds, the returned
\* x lies in [0, p), its low bit equals the sign bit s read from bit 7 of
\* byte 31 (x & 1 == s), and the returned (x, y) satisfies
\* -x^2 + y^2 = 1 + d * x^2 * y^2 (mod p).
C26_UncompressSign ==
    (call.fn = "uncompress" /\ IsOk(call.out)) =>
        LET P == AffineCoordinates(call.out.val)
        IN  /\ P.x \in 0 .. (p - 1)
            /\ P.x % 2 = SignBit(call.comp)
            /\ OnEdwardsCurve(P.x, P.y)

\* an extended point with reduced coordinates, Z # 0, X * Y = Z * T and
\* -X^2 + Y^2 = Z^2 + d * T^2 (mod p)
WellFormedExtended(P) ==
    /\ IsExtended(P)
    /\ \A v \in {P.x, P.y, P.z, P.t} : v \in 0 .. (p - 1)
    /\ P.z # 0
    /\ (P.x * P.y) % p = (P.z * P.t) % p
    /\ (((P.y * P.y) % p) - ((P.x * P.x) % p)) % p
           = (((P.z * P.z) % p) + curve_d * ((P.t * P.t) % p)) % p

\* C27: every non-identity point that uncompress, add, double and
\* scalar_mult of ExtendedEdwardsCurve return on on-curve operands has its
\* four coordinates in [0, p), Z # 0, X * Y = Z * T (mod p) and satisfies
\* -X^2 + Y^2 = Z^2 + d * T^2 (mod p).
C27_ExtendedWellFormed ==
    /\ (curve = "extended"
            /\ last.op \in {"add", "double", "scalar_mult"}
            /\ last.out # IdentityPoint) => WellFormedExtended(last.out)
    /\ (curve = "extended" /\ last.op = "uncompress" /\ IsOk(last.out)
            /\ last.out.val # IdentityPoint)
          => WellFormedExtended(last.out.val)

\* the extended addition of two different points, neither the identity,
\* returned a point with Z # 1
C27_Witness ==
    /\ curve = "extended"
    /\ last.op = "add"
    /\ last.P # IdentityPoint /\ last.Q # IdentityPoint
    /\ AffineCoordinates(last.P) # AffineCoordinates(last.Q)
    /\ last.out # IdentityPoint
    /\ last.out.z # 1
    /\ WellFormedExtended(last.out)

\* C29: the extended model refines the affine model.  For all on-curve
\* affine points P, Q, IdentityPoint included as either operand, and every
\* scalar n >= 0: _to_affine(_from_affine(P)) == P, and _to_affine of the
\* extended add, double and scalar_mult on _from_affine(P), _from_affine(Q)
\* equals the affine add, double and scalar_mult on P, Q, the identity
\* mapping to the identity.
C29_ExtendedRefinesAffine ==
    curve = "affine" =>
        /\ to_affine(from_affine(regP)) = regP
        /\ last.op = "add" =>
               to_affine(extended_add(from_affine(last.P),
                                      from_affine(last.Q))) = last.out
        /\ last.op = "double" =>
               to_affine(extended_double(from_affine(last.P))) = last.out
        /\ last.op = "scalar_mult" =>
               to_affine(scalar_mult("extended", from_affine(last.P),
                                     last.n)) = last.out

(* ----------------------------- claims: Ed25519 ------------------------- *)

\* C3: for every seed and every message, on both curves,
\* verify(sign(msg), msg, public_key) returns true for the signer's own key:
\* sign returns a signature, and verify answers True to it.
C3_SignThenVerify ==
    \A m \in DOMAIN sigs :
        Called(sigs[m]) =>
            /\ IsOk(sigs[m])
            /\ Called(verdicts[m]) => SameResult(verdicts[m], Ok(TRUE))

\* a fresh signer built from the same seed on the same curve: SHA-512 gives
\* the seed the digest it gave at construction
FreshSigner == NewEd25519(digests[SecretKey], signer.curve).val

\* C19: signing is stateless per message.  After any sequence of sign and
\* verify calls the signer's cached state (hashed seed, scalar s, public key)
\* is that of a fresh signer built from the same seed, get_public_key returns
\* the same key, and what sign(msg) returned is what sign(msg) returns on the
\* fresh signer.
C19_SigningIsStateless ==
    signer # NotCalled =>
        /\ signer = FreshSigner
        /\ get_public_key(signer) = get_public_key(FreshSigner)
        /\ \A m \in DOMAIN sigs :
              Called(sigs[m]) =>
                  \A f \in HashOutputs :
                      SameResult(sigs[m],
                                 sign(FreshSigner, m, digests, f, f).result)

\* C19 witness: sign has returned different signatures for the two messages
\* and verify has been called on one of them.
C19_Witness ==
    /\ sigs # <<>>
    /\ \A m \in Msgs : IsOk(sigs[m])
    /\ \E m \in Msgs : Called(verdicts[m])
    /\ sigs[<<>>].val # sigs[<<1>>].val

\* The sum of two group elements, as affine coordinates with the identity
\* (0, 1), by the complete twisted Edwards addition law with a = -1.
GroupAdd(P, Q) ==
    LET m == edwards_denom(P.x, Q.x, P.y, Q.y)
    IN  AffinePoint(((P.x * Q.y + Q.x * P.y) * modinv((1 + m) % p, p)) % p,
                    ((P.y * Q.y + P.x * Q.x) * modinv((1 - m) % p, p)) % p)

RECURSIVE GroupMul(_, _)
\* n * P by n additions
GroupMul(n, P) ==
    IF n = 0 THEN AffinePoint(0, 1) ELSE GroupAdd(GroupMul(n - 1, P), P)

\* the nonce of sign(msg): r = int(SHA-512(prefix | msg)) mod q
NonceOf(m) ==
    from_bytes(digests[SubSeq(signer.hashed_secret_key, KEY_SIZE + 1,
                              2 * KEY_SIZE) \o m]) % q

\* sig is R | t for the message m: R = compress(r * B), and t the
\* little-endian bytes of (r + k * s) mod q with
\* k = int(SHA-512(R | public_key | m)) mod q
IsSignatureOf(sig, m) ==
    LET r == NonceOf(m)
        R_bytes == SubSeq(sig, 1, KEY_SIZE)
        t == from_bytes(SubSeq(sig, KEY_SIZE + 1, Len(sig)))
        k_input == R_bytes \o signer.public_key \o m
    IN  /\ Len(sig) = SIG_SIZE
        /\ SameResult(Ok(R_bytes), affine_compress(GroupMul(r, BasePoint)))
        /\ k_input \in DOMAIN digests
        /\ t < q
        /\ t = (r + (from_bytes(digests[k_input]) % q) * signer.s_int) % q

\* C20: for every seed and every message sign returns, without raising
\* whatever the nonce r is, exactly SIG_SIZE (64) bytes R | t with
\* R = compress(r * B) and t the encoding of (r + k * s) mod q, a value < q.
C20_SignReturnsSignature ==
    \A m \in DOMAIN sigs :
        Called(sigs[m]) => (IsOk(sigs[m]) /\ IsSignatureOf(sigs[m].val, m))

\* the y that uncompress decodes from a compressed point
DecodedY(comp) == from_bytes(comp) % (2 ^ LadderBits)

\* Decompression fails: the decoded y is not below p, or
\* (y^2 - 1) / (d y^2 + 1) has no square root.
DecompressionFails(comp) ==
    LET y == DecodedY(comp)
    IN  \/ y >= p
        \/ ((y * y - 1) * modinv((curve_d * y * y + 1) % p, p)) % p
               \notin FieldSquares

\* C4: verify(sig, msg, A) returns true if and only if R = sig[0:32] and A
\* both decompress and t * B and R + k * A are the same group element, with
\* t = int(sig[32:64]) mod q and k = int(SHA-512(R | A | msg)) mod q, for
\* every t and k, t = 0 or k = 0 (mod q) included.
C4_VerifyIffEquation ==
    (Called(vout) /\ Len(vsig) = SIG_SIZE) =>
        LET R_bytes == SubSeq(vsig, 1, KEY_SIZE)
            t == from_bytes(SubSeq(vsig, KEY_SIZE + 1, SIG_SIZE)) % q
            R == affine_uncompress(R_bytes)
            A == affine_uncompress(vpk)
            holds ==
                /\ ~ DecompressionFails(R_bytes)
                /\ ~ DecompressionFails(vpk)
                /\ LET k == from_bytes(digests[R_bytes \o vpk \o vmsg]) % q
                   IN  GroupMul(t, BasePoint) = GroupAdd(R.val, GroupMul(k, A.val))
        IN  /\ IsOk(vout)
            /\ vout.val <=> holds

\* C7: whenever decompression of R_bytes or of the public key fails inside
\* verify (decoded y >= p, or no square root), verify returns false and does
\* not raise.
C7_DecompressionFailureIsFalse ==
    ( /\ Called(vout)
      /\ Len(vsig) = SIG_SIZE
      /\ \/ DecompressionFails(SubSeq(vsig, 1, KEY_SIZE))
         \/ DecompressionFails(vpk) )
        => SameResult(vout, Ok(FALSE))

\* C7 witness: verify has answered on a public key whose y is in range but
\* gives no square root, with an R that decompresses and t = 0 mod q.
C7_Witness ==
    /\ Called(vout)
    /\ Len(vsig) = SIG_SIZE
    /\ ~ DecompressionFails(SubSeq(vsig, 1, KEY_SIZE))
    /\ DecompressionFails(vpk)
    /\ DecodedY(vpk) < p
    /\ from_bytes(SubSeq(vsig, KEY_SIZE + 1, SIG_SIZE)) = q

\* C8 as stated: for every sig whose length is not 64 bytes (SIG_SIZE),
\* verify(sig, msg, A) returns false.
C8_BadLengthIsFalse ==
    (Called(vout) /\ Len(vsig) # SIG_SIZE) => SameResult(vout, Ok(FALSE))

\* C8 amended: for every sig whose length is not 64 bytes (SIG_SIZE),
\* verify(sig, msg, A) raises ValueError "Signature must be 64 bytes"; it
\* does not return false.
C8_BadLengthRaises ==
    (Called(vout) /\ Len(vsig) # SIG_SIZE)
        => SameResult(vout, Raise("ValueError", "Signature must be 64 bytes"))

\* C8 witness: verify has been called on a signature one byte too long.
C8_Witness ==
    /\ Called(vout)
    /\ Len(vsig) = SIG_SIZE + 1
    /\ ~ IsOk(vout)

====
